---- MODULE Spec2Model ----
(***************************************************************************)
(* Model of blast_wrapper.py: the FASTA index builder creat_dict, the hit  *)
(* stream filter blast_Parser and the post-pass review_output.             *)
(*                                                                         *)
(* Text is modelled character by character: a Python str is a sequence of  *)
(* one-character strings, a file is a sequence of lines, and a line keeps   *)
(* its terminator.  Floats are modelled as exact rationals <<n, d>>, d > 0. *)
(***************************************************************************)
EXTENDS Integers, Sequences, FiniteSets, TLC

\* ------------------------------------------------------------------------
\* Bounds of the model
\* ------------------------------------------------------------------------
MaxFasta == 4
MaxLines == 3
MaxMs == 2

\* ------------------------------------------------------------------------
\* Python str primitives
\* ------------------------------------------------------------------------
TAB == "\t"
NL == "\n"
Whitespace == {" ", "\t", "\n", "\r"}
Digits == <<"0", "1", "2", "3", "4", "5", "6", "7", "8", "9">>

RECURSIVE LStrip(_)
LStrip(s) ==
    IF s # <<>> /\ Head(s) \in Whitespace THEN LStrip(Tail(s)) ELSE s

RECURSIVE RStrip(_)
RStrip(s) ==
    IF s # <<>> /\ s[Len(s)] \in Whitespace
    THEN RStrip(SubSeq(s, 1, Len(s) - 1))
    ELSE s

\* str.strip()
Strip(s) == RStrip(LStrip(s))

\* str.startswith(c) for a one-character prefix
StartsWith(s, c) == s # <<>> /\ s[1] = c

\* s[1:-1]
Slice1m1(s) == SubSeq(s, 2, Len(s) - 1)

\* str.split(sep): every separator cuts, empty fields are kept, "" gives [""]
\* (i scans s, from is where the current field starts)
RECURSIVE SplitAcc(_, _, _, _, _)
SplitAcc(s, sep, i, from, acc) ==
    IF i > Len(s) THEN Append(acc, SubSeq(s, from, Len(s)))
    ELSE IF s[i] = sep
         THEN SplitAcc(s, sep, i + 1, i + 1, Append(acc, SubSeq(s, from, i - 1)))
         ELSE SplitAcc(s, sep, i + 1, from, acc)

Split(s, sep) == SplitAcc(s, sep, 1, 1, <<>>)

\* str.split(): runs of whitespace cut, no empty token is produced
RECURSIVE SplitWSAcc(_, _, _)
SplitWSAcc(s, cur, acc) ==
    IF s = <<>> THEN (IF cur = <<>> THEN acc ELSE Append(acc, cur))
    ELSE IF Head(s) \in Whitespace
         THEN SplitWSAcc(Tail(s), <<>>, IF cur = <<>> THEN acc ELSE Append(acc, cur))
         ELSE SplitWSAcc(Tail(s), Append(cur, Head(s)), acc)

SplitWS(s) == SplitWSAcc(s, <<>>, <<>>)

\* sep.join(items)
RECURSIVE Join(_, _)
Join(items, sep) ==
    IF items = <<>> THEN <<>>
    ELSE IF Len(items) = 1 THEN items[1]
    ELSE items[1] \o <<sep>> \o Join(Tail(items), sep)

\* ------------------------------------------------------------------------
\* defaultdict(str) / dict: a function from keys to texts
\* ------------------------------------------------------------------------
EmptyDict == [k \in {} |-> <<>>]

\* d[k] of a defaultdict(str): the value, "" for a missing key
DictGet(d, k) == IF k \in DOMAIN d THEN d[k] ELSE <<>>

DictPut(d, k, v) == [x \in (DOMAIN d) \cup {k} |-> IF x = k THEN v ELSE d[x]]

\* ------------------------------------------------------------------------
\* creat_dict
\* ------------------------------------------------------------------------
\* the tokens of a header line after the marker
HeaderTokens(line) == SplitWS(Slice1m1(line))

\* name = line[1:-1].split()[0] raises IndexError when there is no token
HeaderRaises(line) == HeaderTokens(line) = <<>>

\* faulty variant: dict[name] = line.strip()
AccumulateOverwrite(old, piece) == piece

\* dict[name] += line.strip()
Accumulate(old, piece) == old \o piece

\* one iteration of the loop over the file, on the loop state [dict, name, st]
CreatDictStep(s, line) ==
    IF StartsWith(line, ">")
    THEN IF HeaderRaises(line)
         THEN [s EXCEPT !.st = "raised"]
         ELSE [s EXCEPT !.name = HeaderTokens(line)[1]]
    ELSE [s EXCEPT !.dict = DictPut(s.dict, s.name,
                                    Accumulate(DictGet(s.dict, s.name), Strip(line)))]

CreatDictInit == [dict |-> EmptyDict, name |-> <<>>, st |-> "loop"]

RECURSIVE CreatDictRun(_, _)
CreatDictRun(s, file) ==
    IF file = <<>> \/ s.st = "raised" THEN s
    ELSE CreatDictRun(CreatDictStep(s, Head(file)), Tail(file))

\* the mapping creat_dict returns for a file it does not raise on
CreatDict(file) == CreatDictRun(CreatDictInit, file).dict

\* ------------------------------------------------------------------------
\* float(), float arithmetic, round(x, 1) and str(float)
\* ------------------------------------------------------------------------
Rat(n, d) == [n |-> n, d |-> d]

DigitVal(c) == CHOOSE k \in 0..9 : Digits[k + 1] = c

IsDigit(c) == \E k \in 1..10 : Digits[k] = c

RECURSIVE Pow10(_)
Pow10(k) == IF k = 0 THEN 1 ELSE 10 * Pow10(k - 1)

\* the number written by the digits of s, the point ignored
RECURSIVE DigitsValue(_, _)
DigitsValue(s, acc) ==
    IF s = <<>> THEN acc
    ELSE IF Head(s) = "." THEN DigitsValue(Tail(s), acc)
    ELSE DigitsValue(Tail(s), 10 * acc + DigitVal(Head(s)))

\* the position of the point in s, 0 when there is none
PointAt(s) ==
    IF \E k \in 1..Len(s) : s[k] = "."
    THEN CHOOSE k \in 1..Len(s) : s[k] = "."
    ELSE 0

\* float(text) on plain decimal notation: [sign] digits [. digits]; anything
\* else raises ValueError (ok = FALSE)
ParseFloat(text) ==
    LET s == Strip(text)
        signed == s # <<>> /\ s[1] \in {"-", "+"}
        body == IF signed THEN Tail(s) ELSE s
        points == {k \in 1..Len(body) : body[k] = "."}
        wellFormed == /\ \A k \in 1..Len(body) : IsDigit(body[k]) \/ body[k] = "."
                      /\ Cardinality(points) <= 1
                      /\ \E k \in 1..Len(body) : IsDigit(body[k])
    IN IF ~wellFormed THEN [ok |-> FALSE, v |-> Rat(0, 1)]
       ELSE LET mag == DigitsValue(body, 0)
                frac == IF PointAt(body) = 0 THEN 0 ELSE Len(body) - PointAt(body)
            IN [ok |-> TRUE,
                v |-> Rat(IF signed /\ s[1] = "-" THEN 0 - mag ELSE mag, Pow10(frac))]

\* a < b
RLess(a, b) == a.n * b.d < b.n * a.d

\* n / d with the sign carried by the numerator
Quot(n, d) == IF d < 0 THEN Rat(0 - n, 0 - d) ELSE Rat(n, d)

\* faulty variant: 100 * (qend - qstart + 1) / qlen
CoverageInclusive(qstart, qend, qlen) ==
    Quot(100 * (qend.n * qstart.d - qstart.n * qend.d + qend.d * qstart.d) * qlen.d,
         qend.d * qstart.d * qlen.n)

\* qcov = 100 * (qend - qstart) / qlen, for qlen # 0
Coverage(qstart, qend, qlen) ==
    Quot(100 * (qend.n * qstart.d - qstart.n * qend.d) * qlen.d,
         qend.d * qstart.d * qlen.n)

\* round(x, 1) in tenths, ties to the even tenth (a tie survives binary
\* floating point only at .25 and .75, where Python rounds half to even)
RoundTenths(x) ==
    LET num == 10 * x.n
        fl == num \div x.d
        rem == num % x.d
    IN IF 2 * rem > x.d THEN fl + 1
       ELSE IF 2 * rem < x.d THEN fl
       ELSE IF fl % 2 = 0 THEN fl ELSE fl + 1

\* str(k) of a natural number
RECURSIVE NatStr(_)
NatStr(k) ==
    IF k < 10 THEN <<Digits[k + 1]>>
    ELSE Append(NatStr(k \div 10), Digits[(k % 10) + 1])

\* str(round(x, 1))
RoundStr(x) ==
    LET t == RoundTenths(x)
        mag == IF t < 0 THEN 0 - t ELSE t
    IN (IF x.n < 0 THEN <<"-">> ELSE <<>>)
       \o NatStr(mag \div 10) \o <<".">> \o <<Digits[(mag % 10) + 1]>>

\* ------------------------------------------------------------------------
\* blast_Parser: one iteration of the loop over the hit lines
\* ------------------------------------------------------------------------
\* faulty variant: times > ms + 1
CapExceededLax(t, m) == t > m + 1

\* times > ms
CapExceeded(t, m) == t > m

\* faulty variant: ident < idt
RejectedIdentOnly(ident, qcov, idtv, qcv) == RLess(ident, idtv)

\* ident < idt or qcov < qc
Rejected(ident, qcov, idtv, qcv) == RLess(ident, idtv) \/ RLess(qcov, qcv)

\* the cap bookkeeping of lines 174-180 on [times, quer_last]
CountHit(s, quer) ==
    IF quer = s.quer_last
    THEN [s EXCEPT !.times = s.times + 1]
    ELSE [s EXCEPT !.quer_last = quer, !.times = 1]

\* lines 181-183 raise: ValueError on a non-numeric field (ok = FALSE),
\* ZeroDivisionError on qlen = 0
NumbersRaise(qstart, qend, qlen, ident) ==
    \/ ~qstart.ok
    \/ ~qend.ok
    \/ ~qlen.ok
    \/ qlen.v.n = 0
    \/ ~ident.ok

\* lines 186-190: the row written for a record that passed
EmitRow(items, qcov, dict) ==
    LET withCov == Append(items, RoundStr(qcov))
        full == IF DOMAIN dict # {}
                THEN Append(withCov, DictGet(dict, items[1]))
                ELSE withCov
    IN Join(full, TAB) \o <<NL>>

\* seq_dict[qid] on the defaultdict inserts a missing key
DictTouch(dict, qid) ==
    IF DOMAIN dict # {} /\ qid \notin DOMAIN dict
    THEN DictPut(dict, qid, <<>>)
    ELSE dict

\* the loop body on the state [times, quer_last, seq_dict, output, st];
\* items[6], items[7], items[10] raise IndexError on a record of fewer than
\* 11 columns
ParserStep(s, line, idtv, qcv, msv) ==
    LET items == Split(Strip(line), TAB)
        c == CountHit(s, items[1])
        qstart == ParseFloat(items[7])
        qend == ParseFloat(items[8])
        qlen == ParseFloat(items[11])
        ident == ParseFloat(items[3])
        qcov == Coverage(qstart.v, qend.v, qlen.v)
    IN IF items[1] = s.quer_last /\ CapExceeded(c.times, msv) THEN c
       ELSE IF Len(items) < 11 \/ NumbersRaise(qstart, qend, qlen, ident)
            THEN [c EXCEPT !.st = "aborted"]
       ELSE IF Rejected(ident.v, qcov, idtv, qcv) THEN c
       ELSE [c EXCEPT !.output = Append(s.output, EmitRow(items, qcov, s.seq_dict)),
                      !.seq_dict = DictTouch(s.seq_dict, items[1])]

\* faulty variant: len(fi.readlines()) <= 2
ReviewTruncatesShort(n) == n <= 2

\* len(fi.readlines()) == 1
ReviewTruncates(n) == n = 1

\* review_output
ReviewOutput(out) == IF ReviewTruncates(Len(out)) THEN <<>> ELSE out

\* the header list of main, without qseq under --no_qseq
Header(noQseq) ==
    LET cols == << <<"q","i","d">>, <<"s","i","d">>, <<"i","d","e","n","t","%">>,
                   <<"a","l","n","_","l","e","n">>, <<"m","i","s","s">>, <<"g","a","p">>,
                   <<"q","s","t","a","r","t">>, <<"q","e","n","d">>,
                   <<"s","s","t","a","r","t">>, <<"s","e","n","d">>,
                   <<"q","l","e","n">>, <<"s","l","e","n">>,
                   <<"e","v","a","l","u","e">>, <<"b","i","t","s","c","o","r","e">>,
                   <<"q","c","o","v","%">> >>
    IN IF noQseq THEN cols ELSE Append(cols, <<"q","s","e","q">>)

HeaderLine(noQseq) == Join(Header(noQseq), TAB) \o <<NL>>

\* ------------------------------------------------------------------------
\* Inputs
\* ------------------------------------------------------------------------
Q1 == <<"Q", "1">>
Q2 == <<"Q", "2">>

\* the lines a FASTA file is made of; the last two lack the terminator and
\* can only end a file
FastaPool ==
    { <<">", "A", NL>>, <<">", "B", " ", "x", NL>>, <<">", NL>>, <<">", " ", NL>>,
      <<"A", "C", NL>>, <<" ", "G", " ", NL>>, <<NL>>,
      <<">", "A", "B">>, <<"T">> }

\* a 14-column hit line of the fixed outfmt
Hit(q, sid, ident, qstart, qend, qlen) ==
    Join(<<q, sid, ident, <<"1", "0">>, <<"0">>, <<"0">>, qstart, qend,
           <<"1">>, <<"9">>, qlen, <<"5", "0">>, <<"1", "e", "-", "9">>, <<"7", "7">> >>,
         TAB) \o <<NL>>

HitPool ==
    { Hit(Q1, <<"a">>, <<"9", "5">>, <<"1">>, <<"5", "0">>, <<"1", "0", "0">>),
      Hit(Q1, <<"b">>, <<"4", "0">>, <<"1">>, <<"5", "0">>, <<"1", "0", "0">>),
      Hit(Q1, <<"c">>, <<"9", "9">>, <<"1", "0">>, <<"3", "0">>, <<"6", "0">>),
      Hit(Q2, <<"d">>, <<"9", "5", ".", "5">>, <<"1">>, <<"3">>, <<"7">>),
      \* non-numeric percent identity
      Hit(Q1, <<"f">>, <<"x">>, <<"1">>, <<"5", "0">>, <<"1", "0", "0">>),
      \* 15 columns
      Join(<<Q1, <<"h">>, <<"9", "7">>, <<"1", "0">>, <<"0">>, <<"0">>, <<"1">>,
             <<"5", "0">>, <<"1">>, <<"9">>, <<"1", "0", "0">>, <<"5", "0">>,
             <<"0">>, <<"7", "7">>, <<"z">> >>, TAB) \o <<NL>>,
      \* 3 columns
      Join(<<Q2, <<"k">>, <<"9", "0">> >>, TAB) \o <<NL>> }

\* the query files main builds the index from: headers only, and one
\* sequence wrapped over two lines
QueryFastas ==
    { << <<">", "Q", "1", NL>> >>,
      << <<">", "Q", "1", " ", "d", NL>>, <<"A", "C", NL>>, <<"G", "T", NL>> >> }

\* args.idt, args.qc
Thresholds == { <<Rat(0, 1), Rat(0, 1)>>, <<Rat(50, 1), Rat(0, 1)>>, <<Rat(0, 1), Rat(40, 1)>> }

\* ------------------------------------------------------------------------
\* State
\* ------------------------------------------------------------------------
VARIABLES
    fa,         \* creat_dict: the lines of the file read so far
    dict,       \* creat_dict: the mapping under construction
    name,       \* creat_dict: the current identifier
    ipc,        \* creat_dict: "loop", "returned" or "raised"
    lines,      \* blast_Parser: the hit lines read so far
    output,     \* the lines of the output file
    times,      \* blast_Parser: hit number of the current query
    quer_last,  \* blast_Parser: the current query id
    seq_dict,   \* blast_Parser: the index used for annotation
    nq,         \* args.nq
    idt,        \* args.idt
    qc,         \* args.qc
    ms,         \* args.ms
    pc          \* main: "idle", "open", "loop", "review", "done" or "aborted"

indexVars == <<fa, dict, name, ipc>>
filterVars == <<lines, output, times, quer_last, seq_dict, nq, idt, qc, ms, pc>>
vars == <<fa, dict, name, ipc, lines, output, times, quer_last, seq_dict, nq, idt, qc, ms, pc>>

\* ------------------------------------------------------------------------
\* creat_dict, line by line
\* ------------------------------------------------------------------------
InitIndex ==
    /\ fa = <<>>
    /\ dict = CreatDictInit.dict
    /\ name = CreatDictInit.name
    /\ ipc = CreatDictInit.st
    /\ lines = <<>>
    /\ output = <<>>
    /\ times = 0
    /\ quer_last = <<>>
    /\ seq_dict = EmptyDict
    /\ nq = FALSE
    /\ idt = Rat(0, 1)
    /\ qc = Rat(0, 1)
    /\ ms = 1
    /\ pc = "idle"

\* a further line exists only after a terminated one
MoreLines(file) ==
    IF file = <<>> THEN TRUE
    ELSE LET last == file[Len(file)] IN last[Len(last)] = NL

\* for line in f: one iteration
ReadFastaLine ==
    /\ ipc = "loop"
    /\ Len(fa) < MaxFasta
    /\ MoreLines(fa)
    /\ \E line \in FastaPool :
         LET s == CreatDictStep([dict |-> dict, name |-> name, st |-> ipc], line)
         IN /\ fa' = Append(fa, line)
            /\ dict' = s.dict
            /\ name' = s.name
            /\ ipc' = s.st
    /\ UNCHANGED filterVars

\* end of file: return dict
ReturnDict ==
    /\ ipc = "loop"
    /\ ipc' = "returned"
    /\ UNCHANGED <<fa, dict, name>>
    /\ UNCHANGED filterVars

NextIndex == ReadFastaLine \/ ReturnDict

SpecIndex == InitIndex /\ [][NextIndex]_vars

\* ------------------------------------------------------------------------
\* main from the call of creat_dict on: blast_Parser, then review_output
\* ------------------------------------------------------------------------
Init ==
    /\ \E file \in QueryFastas :
         LET s == CreatDictRun(CreatDictInit, file)
         IN /\ fa = file
            /\ dict = s.dict
            /\ name = s.name
            /\ ipc = "returned"
    /\ nq \in BOOLEAN
    /\ seq_dict = EmptyDict
    /\ \E t \in Thresholds : idt = t[1] /\ qc = t[2]
    /\ ms \in 1..MaxMs
    /\ lines = <<>>
    /\ output = <<>>
    /\ times = 0
    /\ quer_last = <<>>
    /\ pc = "open"

\* blast_Parser up to the loop: bind seq_dict, open fo for writing, write
\* the header
OpenOutput ==
    /\ pc = "open"
    /\ seq_dict' = IF nq THEN EmptyDict ELSE dict
    /\ output' = <<HeaderLine(nq)>>
    /\ times' = 0
    /\ quer_last' = <<>>
    /\ pc' = "loop"
    /\ UNCHANGED <<lines, nq, idt, qc, ms>>
    /\ UNCHANGED indexVars

\* one iteration of the loop over input.readlines()
ParseLine ==
    /\ pc = "loop"
    /\ Len(lines) < MaxLines
    /\ \E line \in HitPool :
         LET s == ParserStep([times |-> times, quer_last |-> quer_last,
                              seq_dict |-> seq_dict, output |-> output, st |-> "loop"],
                             line, idt, qc, ms)
         IN /\ lines' = Append(lines, line)
            /\ times' = s.times
            /\ quer_last' = s.quer_last
            /\ seq_dict' = s.seq_dict
            /\ output' = s.output
            /\ pc' = s.st
    /\ UNCHANGED <<nq, idt, qc, ms>>
    /\ UNCHANGED indexVars

\* the loop ends, blast_Parser returns
EndOfInput ==
    /\ pc = "loop"
    /\ pc' = "review"
    /\ UNCHANGED <<lines, output, times, quer_last, seq_dict, nq, idt, qc, ms>>
    /\ UNCHANGED indexVars

\* review_output(args.o)
Review ==
    /\ pc = "review"
    /\ output' = ReviewOutput(output)
    /\ pc' = "done"
    /\ UNCHANGED <<lines, times, quer_last, seq_dict, nq, idt, qc, ms>>
    /\ UNCHANGED indexVars

Next == OpenOutput \/ ParseLine \/ EndOfInput \/ Review

Spec == Init /\ [][Next]_vars

\* ------------------------------------------------------------------------
\* Vocabulary of the properties
\* ------------------------------------------------------------------------
\* every line of the pool with its tab-separated fields, the text a row
\* made of them starts with and, where they are numbers, its percent
\* identity, qstart, qend and qlen
HitTable ==
    [l \in HitPool |->
        LET items == Split(Strip(l), TAB)
            numeric == /\ Len(items) >= 11
                       /\ ParseFloat(items[3]).ok
                       /\ ParseFloat(items[7]).ok
                       /\ ParseFloat(items[8]).ok
                       /\ ParseFloat(items[11]).ok
                       /\ ParseFloat(items[11]).v.n # 0
        IN [items |-> items,
            joined |-> Join(items, TAB) \o <<TAB>>,
            numeric |-> numeric,
            ident |-> IF numeric THEN ParseFloat(items[3]).v ELSE Rat(0, 1),
            qstart |-> IF numeric THEN ParseFloat(items[7]).v ELSE Rat(0, 1),
            qend |-> IF numeric THEN ParseFloat(items[8]).v ELSE Rat(0, 1),
            qlen |-> IF numeric THEN ParseFloat(items[11]).v ELSE Rat(1, 1)]]

\* the tab-separated fields of a line
Fields(line) == HitTable[line].items

QueryOf(line) == Fields(line)[1]

\* the fields of an output row, its terminator removed
RowFields(row) == Split(SubSeq(row, 1, Len(row) - 1), TAB)

\* the number of hit lines the loop has gone past; the line an abort
\* happened on is the last one read and is not among them
Handled == IF pc = "aborted" THEN Len(lines) - 1 ELSE Len(lines)

\* the first field of an output row: the text before its first tab
RowQuery(row) ==
    LET t == CHOOSE k \in 1..Len(row) : row[k] = TAB /\ \A x \in 1..(k - 1) : row[x] # TAB
    IN SubSeq(row, 1, t - 1)

\* the data rows of the output file
DataRows == IF output = <<>> THEN <<>> ELSE Tail(output)

\* records of one query id are contiguous
Grouped(ls) ==
    \A a, b, c \in 1..Len(ls) :
        (a < b /\ b < c /\ QueryOf(ls[a]) = QueryOf(ls[c])) => QueryOf(ls[b]) = QueryOf(ls[a])

\* 1-based position of record k inside its run of equal query ids
RECURSIVE RunPos(_, _)
RunPos(ls, k) ==
    IF k = 1 \/ QueryOf(ls[k - 1]) # QueryOf(ls[k]) THEN 1 ELSE 1 + RunPos(ls, k - 1)

\* percent identity >= idt and query coverage >= qc
PassesThresholds(line) ==
    LET h == HitTable[line]
    IN /\ h.numeric
       /\ ~RLess(h.ident, idt)
       /\ ~RLess(Coverage(h.qstart, h.qend, h.qlen), qc)

Qualifies(ls, k) == RunPos(ls, k) <= ms /\ PassesThresholds(ls[k])

\* the indices, in input order, of the qualifying records among the first n
RECURSIVE Selected(_, _)
Selected(ls, n) ==
    IF n = 0 THEN <<>>
    ELSE IF Qualifies(ls, n) THEN Append(Selected(ls, n - 1), n)
    ELSE Selected(ls, n - 1)

\* the fields f of a row are those of the record, with fields appended
Extends(f, items) == Len(f) > Len(items) /\ SubSeq(f, 1, Len(items)) = items

\* row is the record of line with fields appended
RowOf(row, line) ==
    LET start == HitTable[line].joined
    IN Len(row) > Len(start) /\ SubSeq(row, 1, Len(start)) = start

Running == pc \in {"loop", "review", "aborted"}

\* C1: when the records of each query id are contiguous among the lines
\* read, no query id has more than ms data rows in the output, after any
\* prefix of the stream.
PerQueryCap ==
    Grouped(lines) =>
        \A k \in 1..Len(lines) :
            Cardinality({j \in 1..Len(DataRows) : RowQuery(DataRows[j]) = QueryOf(lines[k])}) <= ms

\* three contiguous hits of one query were read under ms = 2 and two rows
\* were written
PerQueryCapWitness ==
    /\ pc = "review"
    /\ ms = 2
    /\ Len(lines) = 3
    /\ \A k \in 1..3 : QueryOf(lines[k]) = Q1
    /\ Len(DataRows) = 2

\* C2: the data rows are, in input order, exactly the records whose
\* position in their run of equal query ids is <= ms and whose identity and
\* coverage reach the thresholds.
CapThenThreshold ==
    Running =>
        LET sel == Selected(lines, Handled)
        IN /\ Len(DataRows) = Len(sel)
           /\ \A j \in 1..Len(sel) : RowOf(DataRows[j], lines[sel[j]])

\* Scenario A: identities 95, 40, 99 for Q1, idt = 50, ms = 2: one row, the
\* first record
CapThenThresholdWitness ==
    /\ pc = "review"
    /\ ms = 2
    /\ idt = Rat(50, 1)
    /\ Len(lines) = 3
    /\ \A k \in 1..3 : QueryOf(lines[k]) = Q1
    /\ Fields(lines[1])[3] = <<"9", "5">>
    /\ Fields(lines[2])[3] = <<"4", "0">>
    /\ Fields(lines[3])[3] = <<"9", "9">>
    /\ Len(DataRows) = 1
    /\ RowOf(DataRows[1], lines[1])

\* x is the tenth nearest to 100 * (qend - qstart) / qlen, written with one
\* decimal
NearestTenth(x, qstart, qend, qlen) ==
    LET num == 100 * (qend.n * qstart.d - qstart.n * qend.d) * qlen.d
        den == qend.d * qstart.d * qlen.n
        diff == 20 * num - 2 * x.n * den
    IN /\ x.d = 10
       /\ diff <= den
       /\ 0 - diff <= den

NoHeaderOnlyReport ==
    pc = "done" =>
        /\ (output = <<>>) <=> (Selected(lines, Len(lines)) = <<>>)
        /\ output # <<>> => (output[1] = HeaderLine(nq) /\ Len(output) >= 2)

\* records were read, none qualified, and the reviewed output is empty
NoHeaderOnlyReportWitness ==
    /\ pc = "done"
    /\ Len(lines) >= 2
    /\ output = <<>>

\* C5: with an index supplied and qseq in the header, every data row ends
\* with one field after the coverage field, the index's text for the row's
\* query id, empty when the id is absent.
QseqAnnotation ==
    (Running /\ ~nq) =>
        LET sel == Selected(lines, Handled)
        IN \A j \in 1..Len(DataRows) :
             LET items == Fields(lines[sel[j]])
                 f == RowFields(DataRows[j])
             IN /\ Len(f) = Len(items) + 2
                /\ f[Len(f)] = DictGet(dict, items[1])

\* C6: a record with a column count other than 14 or a non-numeric numeric
\* field aborts the pass: no such record is among those the loop went past.
MalformedIsFatal ==
    \A k \in 1..Handled :
        LET items == Fields(lines[k])
        IN /\ Len(items) = 14
           /\ ParseFloat(items[3]).ok
           /\ ParseFloat(items[7]).ok
           /\ ParseFloat(items[8]).ok
           /\ ParseFloat(items[11]).ok

\* C7: after an abort the output holds neither the header nor a data row.
NoPartialReportOnAbort == pc = "aborted" => output = <<>>

\* ------------------------------------------------------------------------
\* Properties of creat_dict
\* ------------------------------------------------------------------------
IsHeader(line) == line[1] = ">"

\* the tokens after the marker
TokensAfterMarker(line) == SplitWS(Tail(line))

\* the header line in force at line k, 0 before the first header
RECURSIVE HeaderBefore(_, _)
HeaderBefore(file, k) ==
    IF k = 0 THEN 0
    ELSE IF IsHeader(file[k]) THEN k
    ELSE HeaderBefore(file, k - 1)

\* the stripped non-header lines among the first n that follow a header
\* carrying id, concatenated in input order
RECURSIVE TextUnder(_, _, _)
TextUnder(file, id, n) ==
    IF n = 0 THEN <<>>
    ELSE LET h == HeaderBefore(file, n)
             mine == /\ ~IsHeader(file[n])
                     /\ h # 0
                     /\ TokensAfterMarker(file[h]) # <<>>
                     /\ TokensAfterMarker(file[h])[1] = id
         IN TextUnder(file, id, n - 1) \o (IF mine THEN Strip(file[n]) ELSE <<>>)

HeaderIds(file) ==
    {TokensAfterMarker(file[k])[1] :
        k \in {x \in 1..Len(file) : IsHeader(file[x]) /\ TokensAfterMarker(file[x]) # <<>>}}

\* C8: the index maps every header identifier to the concatenation, in
\* input order, of the stripped non-header lines following any header
\* that carries it; a repeated header appends.
IndexContent ==
    \A id \in HeaderIds(fa) : DictGet(dict, id) = TextUnder(fa, id, Len(fa))

\* a header repeated, sequence lines after both occurrences, both kept
IndexContentWitness ==
    /\ ipc = "returned"
    /\ Len(fa) = 4
    /\ IsHeader(fa[1]) /\ ~IsHeader(fa[2]) /\ IsHeader(fa[3]) /\ ~IsHeader(fa[4])
    /\ TokensAfterMarker(fa[1]) # <<>>
    /\ TokensAfterMarker(fa[1]) = TokensAfterMarker(fa[3])
    /\ Strip(fa[2]) # <<>> /\ Strip(fa[4]) # <<>>
    /\ DictGet(dict, TokensAfterMarker(fa[1])[1]) = Strip(fa[2]) \o Strip(fa[4])

\* the file without the lines before its first header
RECURSIVE DropLeading(_)
DropLeading(file) ==
    IF file = <<>> \/ IsHeader(Head(file)) THEN file ELSE DropLeading(Tail(file))

\* C9: lines before the first header have no effect on the returned
\* mapping.
LeadingLinesIgnored == ipc = "returned" => dict = CreatDict(DropLeading(fa))

\* C10: creat_dict does not raise, whatever the lines.
IndexNeverRaises == ipc # "raised"

====
